---- MODULE Spec2Model ----
(***************************************************************************)
(* FinApp (src/app_financas_streamlit.py): a Streamlit script that keeps   *)
(* four Supabase tables (transactions, cards, accounts, categories) and a  *)
(* per-session copy of each in st.session_state.                           *)
(*                                                                         *)
(* One step of the model is one rerun of the script: the user picks a menu *)
(* entry, fills the widgets and clicks one button; the script runs top to  *)
(* bottom and st.button / st.form_submit_button is True only for the       *)
(* button whose click caused this rerun.                                   *)
(*                                                                         *)
(* Abstractions: amounts are integers (cents); the columns "data" and      *)
(* "descricao" of a transaction are left out (no handler reads them back   *)
(* except to display them); uuid4() returns the least id never issued for  *)
(* the table; every Supabase call either succeeds or raises, chosen        *)
(* nondeterministically.                                                   *)
(***************************************************************************)
EXTENDS Integers, Sequences, FiniteSets, TLC

VARIABLES
    supabase,       \* the persisted tables: table name -> set of rows
    session_state,  \* st.session_state: tx, cards, accounts, cats (DataFrames: sequences of rows)
    screen,         \* what the last rerun rendered: st.error/st.warning messages, confirm button, dashboard
    uuids,          \* ids issued so far, per table
    nOps            \* reruns so far that called Supabase

vars == <<supabase, session_state, screen, uuids, nOps>>

(***************************************************************************)
(* Bounds of the model.                                                    *)
(***************************************************************************)
MaxOps == 4
MaxOpsCurto == 2
MaxTx == 2
MaxAccounts == 2
MaxCards == 1
MaxCats == 1

(***************************************************************************)
(* Input sets of the widgets.                                              *)
(***************************************************************************)
Nomes == {"A", "B"}
Valores == {-1, 2}
Tipos == {"Receita", "Despesa"}
Saldos == {0, 5}
LimitesCadastro == {1}
LimitesEdicao == {-1, 1}
Vencimentos == {10}
CatTipos == {"Despesa"}

None == 0
NoneNome == "None"
NovaCategoria == "-- Nova categoria --"
Nenhuma == "-- Nenhuma --"
Nenhum == "-- Nenhum --"
Traco == "--"

(***************************************************************************)
(* DataFrame helpers.                                                      *)
(***************************************************************************)
Rows(df) == {df[i] : i \in 1..Len(df)}

Orderings(S) ==
    {s \in [1..Cardinality(S) -> S] : \A i, j \in 1..Cardinality(S) : i # j => s[i] # s[j]}

ColNomes(df) == {df[i].nome : i \in 1..Len(df)}

\* df[df["nome"] == sel].iloc[0]
FirstByNome(df, sel) ==
    df[CHOOSE i \in 1..Len(df) : df[i].nome = sel /\ \A j \in 1..(i - 1) : df[j].nome # sel]

\* {r["nome"]: r["id"] for _, r in df.iterrows()} followed by .get(choice)
NameMapGet(df, choice) ==
    IF choice \in ColNomes(df)
    THEN df[CHOOSE i \in 1..Len(df) : df[i].nome = choice /\ \A j \in (i + 1)..Len(df) : df[j].nome # choice].id
    ELSE None

\* df.loc[df[col] == key, fields(updates)] = values(updates)
LocSet(df, col, key, updates) ==
    [i \in 1..Len(df) |->
        IF df[i][col] = key
        THEN [f \in DOMAIN df[i] |-> IF f \in DOMAIN updates THEN updates[f] ELSE df[i][f]]
        ELSE df[i]]

\* df[df["id"] != row_id]
DropId(df, row_id) == SelectSeq(df, LAMBDA r : r.id # row_id)

(***************************************************************************)
(* Supabase helpers (lines 24-64). `ok` says whether the call succeeds.    *)
(***************************************************************************)
fetch_table(table, ok) ==
    IF ok THEN Orderings(table) ELSE {<<>>}

\* mutant: the row is returned although the insert raised
insert_row_semErro(table, row, ok) ==
    [table |-> IF ok THEN table \cup {row} ELSE table, data |-> <<row>>]

insert_row(table, row, ok) ==
    IF ok THEN [table |-> table \cup {row}, data |-> <<row>>]
          ELSE [table |-> table, data |-> <<>>]

update_row(table, row_id, updates, ok) ==
    IF row_id = None THEN [table |-> table, isNone |-> TRUE]
    ELSE IF ok
    THEN [table |-> {IF r.id = row_id
                     THEN [f \in DOMAIN r |-> IF f \in DOMAIN updates THEN updates[f] ELSE r[f]]
                     ELSE r : r \in table},
          isNone |-> FALSE]
    ELSE [table |-> table, isNone |-> TRUE]

delete_row(table, row_id, ok) ==
    IF row_id = None THEN [table |-> table, isNone |-> TRUE]
    ELSE IF ok
    THEN [table |-> {r \in table : r.id # row_id}, isNone |-> FALSE]
    ELSE [table |-> table, isNone |-> TRUE]

\* supabase.table("transactions").update({col: None, nomeCol: None}).eq(col, key).execute()
ClearRefs(table, col, nomeCol, key, ok) ==
    IF ok
    THEN {IF r[col] = key
          THEN [f \in DOMAIN r |-> IF f = col THEN None ELSE IF f = nomeCol THEN NoneNome ELSE r[f]]
          ELSE r : r \in table}
    ELSE table

(***************************************************************************)
(* The screen.                                                             *)
(***************************************************************************)
NoConfirm == [table |-> "", sel |-> ""]
NoDash == [shown |-> FALSE, receitas |-> 0, despesas |-> 0, saldo |-> 0,
           account_saldos |-> <<>>, cat_sum |-> {}, card_summaries |-> <<>>]
Blank(msgs) == [msgs |-> msgs, confirm |-> NoConfirm, dash |-> NoDash]

Init ==
    /\ supabase = [transactions |-> {}, cards |-> {}, accounts |-> {}, categories |-> {}]
    /\ session_state = [tx |-> <<>>, cards |-> <<>>, accounts |-> <<>>, cats |-> <<>>]
    /\ screen = Blank({})
    /\ uuids = [transactions |-> 0, cards |-> 0, accounts |-> 0, categories |-> 0]
    /\ nOps = 0

(***************************************************************************)
(* A new browser session: st.session_state starts empty and is filled from *)
(* the four fetches (lines 84-106).                                        *)
(***************************************************************************)
NewSession ==
    /\ nOps < MaxOps
    /\ \E okTx, okCards, okAccounts, okCats \in BOOLEAN :
       \E _tx \in fetch_table(supabase.transactions, okTx),
          _cards \in fetch_table(supabase.cards, okCards),
          _accounts \in fetch_table(supabase.accounts, okAccounts),
          _cats \in fetch_table(supabase.categories, okCats) :
          /\ session_state' = [tx |-> _tx, cards |-> _cards, accounts |-> _accounts, cats |-> _cats]
          /\ screen' = Blank({m \in {"Erro ao buscar"} : ~(okTx /\ okCards /\ okAccounts /\ okCats)})
    /\ nOps' = nOps + 1
    /\ UNCHANGED <<supabase, uuids>>

(***************************************************************************)
(* Gerenciar Contas: form_conta (lines 393-405).                           *)
(***************************************************************************)
CadastrarConta ==
    /\ nOps < MaxOps
    /\ uuids.accounts < MaxAccounts
    /\ \E nome \in Nomes, saldo \in Saldos, ok \in BOOLEAN :
       LET aid == uuids.accounts + 1
           novo == [id |-> aid, nome |-> nome, saldo_inicial |-> saldo]
           inserted == insert_row(supabase.accounts, novo, ok)
       IN  /\ supabase' = [supabase EXCEPT !.accounts = inserted.table]
           /\ IF inserted.data # <<>>
              THEN /\ session_state' = [session_state EXCEPT !.accounts = @ \o inserted.data]
                   /\ screen' = Blank({})
                   /\ uuids' = [uuids EXCEPT !.accounts = aid]
              ELSE /\ screen' = Blank({"Erro ao inserir em accounts"})
                   /\ UNCHANGED <<session_state, uuids>>
    /\ nOps' = nOps + 1

\* edit_acc (lines 414-425)
EditarConta ==
    /\ nOps < MaxOps
    /\ \E sel \in ColNomes(session_state.accounts) \ {Traco, ""}, n_nome \in Nomes,
          n_saldo \in Saldos, ok \in BOOLEAN :
       LET row == FirstByNome(session_state.accounts, sel)
           updates == [nome |-> n_nome, saldo_inicial |-> n_saldo]
           res == update_row(supabase.accounts, row.id, updates, ok)
       IN  /\ supabase' = [supabase EXCEPT !.accounts = res.table]
           /\ IF ~res.isNone
              THEN /\ session_state' = [session_state EXCEPT
                                           !.accounts = LocSet(@, "id", row.id, updates)]
                   /\ screen' = Blank({})
              ELSE /\ screen' = Blank({"Erro ao atualizar accounts"})
                   /\ UNCHANGED session_state
    /\ nOps' = nOps + 1
    /\ UNCHANGED uuids

(***************************************************************************)
(* The "Excluir ..." block of a Gerenciar page (accounts: lines 426-444;   *)
(* cards: 365-384; categories: 530-548). excluir and confirmar are the     *)
(* values st.button returns for the outer and the nested button in this    *)
(* rerun. tabela is the Supabase table, chave its session_state key, col   *)
(* and nomeCol the transaction columns that refer to it.                   *)
(***************************************************************************)
SecaoExcluir(tabela, chave, col, nomeCol, sel, excluir, confirmar, okClear, okDel) ==
    LET row == FirstByNome(session_state[chave], sel)
        linked == SelectSeq(session_state.tx, LAMBDA t : t[col] = row.id)
        res == delete_row(supabase[tabela], row.id, okDel)
    IN  IF ~excluir
        THEN /\ screen' = Blank({})
             /\ UNCHANGED <<supabase, session_state, nOps>>
        ELSE IF linked # <<>>
        THEN IF confirmar
             THEN /\ nOps < MaxOps
                  /\ nOps' = nOps + 1
                  /\ supabase' = [supabase EXCEPT
                        !.transactions = ClearRefs(@, col, nomeCol, row.id, okClear),
                        ![tabela] = res.table]
                  /\ IF ~res.isNone
                     THEN /\ session_state' = [session_state EXCEPT
                                !.tx = LocSet(@, col, row.id, (col :> None) @@ (nomeCol :> NoneNome)),
                                ![chave] = DropId(@, row.id)]
                          /\ screen' = Blank({m \in {"Falha ao limpar referencias"} : ~okClear})
                     ELSE /\ screen' = Blank({"Erro ao deletar"}
                                             \cup {m \in {"Falha ao limpar referencias"} : ~okClear})
                          /\ UNCHANGED session_state
             ELSE /\ screen' = [msgs |-> {"Existem lancamentos vinculados."},
                                confirm |-> [table |-> tabela, sel |-> sel],
                                dash |-> NoDash]
                  /\ UNCHANGED <<supabase, session_state, nOps>>
        ELSE /\ nOps < MaxOps
             /\ nOps' = nOps + 1
             /\ supabase' = [supabase EXCEPT ![tabela] = res.table]
             /\ IF ~res.isNone
                THEN /\ session_state' = [session_state EXCEPT ![chave] = DropId(@, row.id)]
                     /\ screen' = Blank({})
                ELSE /\ screen' = Blank({"Erro ao deletar"})
                     /\ UNCHANGED session_state

\* A click on "Excluir conta" (line 426).
ExcluirConta ==
    /\ \E sel \in ColNomes(session_state.accounts) \ {Traco, ""}, okDel \in BOOLEAN :
          SecaoExcluir("accounts", "accounts", "conta_id", "conta_nome", sel,
                       TRUE, FALSE, TRUE, okDel)
    /\ UNCHANGED uuids

\* A click on "Confirmar exclusão desta conta" (line 430), which the previous rerun rendered.
ConfirmarExclusaoConta ==
    /\ screen.confirm.table = "accounts"
    /\ \E okClear, okDel \in BOOLEAN :
          SecaoExcluir("accounts", "accounts", "conta_id", "conta_nome", screen.confirm.sel,
                       FALSE, TRUE, okClear, okDel)
    /\ UNCHANGED uuids

(***************************************************************************)
(* Gerenciar Cartões (lines 323-384).                                      *)
(***************************************************************************)
CadastrarCartao ==
    /\ nOps < MaxOps
    /\ uuids.cards < MaxCards
    /\ \E nome \in Nomes, limite \in LimitesCadastro, vencimento \in Vencimentos, ok \in BOOLEAN :
       LET cid == uuids.cards + 1
           novo == [id |-> cid, nome |-> nome, limite |-> limite, vencimento |-> vencimento]
           inserted == insert_row(supabase.cards, novo, ok)
       IN  /\ supabase' = [supabase EXCEPT !.cards = inserted.table]
           /\ IF inserted.data # <<>>
              THEN /\ session_state' = [session_state EXCEPT !.cards = @ \o inserted.data]
                   /\ screen' = Blank({})
                   /\ uuids' = [uuids EXCEPT !.cards = cid]
              ELSE /\ screen' = Blank({"Erro ao inserir em cards"})
                   /\ UNCHANGED <<session_state, uuids>>
    /\ nOps' = nOps + 1

EditarCartao ==
    /\ nOps < MaxOps
    /\ \E sel \in ColNomes(session_state.cards) \ {Traco, ""}, n_nome \in Nomes,
          n_limite \in LimitesEdicao, n_venc \in Vencimentos, ok \in BOOLEAN :
       LET row == FirstByNome(session_state.cards, sel)
           updates == [nome |-> n_nome, limite |-> n_limite, vencimento |-> n_venc]
           res == update_row(supabase.cards, row.id, updates, ok)
       IN  /\ supabase' = [supabase EXCEPT !.cards = res.table]
           /\ IF ~res.isNone
              THEN /\ session_state' = [session_state EXCEPT
                                           !.cards = LocSet(@, "id", row.id, updates)]
                   /\ screen' = Blank({})
              ELSE /\ screen' = Blank({"Erro ao atualizar cards"})
                   /\ UNCHANGED session_state
    /\ nOps' = nOps + 1
    /\ UNCHANGED uuids

ExcluirCartao ==
    /\ \E sel \in ColNomes(session_state.cards) \ {Traco, ""}, okDel \in BOOLEAN :
          SecaoExcluir("cards", "cards", "cartao_id", "cartao_nome", sel,
                       TRUE, FALSE, TRUE, okDel)
    /\ UNCHANGED uuids

ConfirmarExclusaoCartao ==
    /\ screen.confirm.table = "cards"
    /\ \E okClear, okDel \in BOOLEAN :
          SecaoExcluir("cards", "cards", "cartao_id", "cartao_nome", screen.confirm.sel,
                       FALSE, TRUE, okClear, okDel)
    /\ UNCHANGED uuids

(***************************************************************************)
(* Gerenciar Categorias (lines 449-548).                                   *)
(***************************************************************************)
\* "traduzir seleção para id ou None" (lines 464-469, 508-513)
DefaultId(df, choice, nenhum) ==
    IF choice # nenhum /\ df # <<>> THEN FirstByNome(df, choice).id ELSE None

CadastrarCategoria ==
    /\ nOps < MaxOps
    /\ uuids.categories < MaxCats
    /\ \E nome \in Nomes, tipo \in CatTipos,
          def_acc \in {Nenhuma} \cup ColNomes(session_state.accounts),
          def_card \in {Nenhum} \cup ColNomes(session_state.cards), ok \in BOOLEAN :
       LET cid == uuids.categories + 1
           novo == [id |-> cid, nome |-> nome, tipo |-> tipo,
                    default_conta_id |-> DefaultId(session_state.accounts, def_acc, Nenhuma),
                    default_cartao_id |-> DefaultId(session_state.cards, def_card, Nenhum)]
           inserted == insert_row(supabase.categories, novo, ok)
       IN  /\ supabase' = [supabase EXCEPT !.categories = inserted.table]
           /\ IF inserted.data # <<>>
              THEN /\ session_state' = [session_state EXCEPT !.cats = @ \o inserted.data]
                   /\ screen' = Blank({})
                   /\ uuids' = [uuids EXCEPT !.categories = cid]
              ELSE /\ screen' = Blank({"Erro ao inserir em categories"})
                   /\ UNCHANGED <<session_state, uuids>>
    /\ nOps' = nOps + 1

EditarCategoria ==
    /\ nOps < MaxOps
    /\ \E sel \in ColNomes(session_state.cats) \ {Traco, ""}, n_nome \in Nomes, n_tipo \in CatTipos,
          n_def_acc \in {Nenhuma} \cup ColNomes(session_state.accounts),
          n_def_card \in {Nenhum} \cup ColNomes(session_state.cards), ok \in BOOLEAN :
       LET row == FirstByNome(session_state.cats, sel)
           updates == [nome |-> n_nome, tipo |-> n_tipo,
                       default_conta_id |-> DefaultId(session_state.accounts, n_def_acc, Nenhuma),
                       default_cartao_id |-> DefaultId(session_state.cards, n_def_card, Nenhum)]
           res == update_row(supabase.categories, row.id, updates, ok)
       IN  /\ supabase' = [supabase EXCEPT !.categories = res.table]
           /\ IF ~res.isNone
              THEN /\ session_state' = [session_state EXCEPT
                                           !.cats = LocSet(@, "id", row.id, updates)]
                   /\ screen' = Blank({})
              ELSE /\ screen' = Blank({"Erro ao atualizar categories"})
                   /\ UNCHANGED session_state
    /\ nOps' = nOps + 1
    /\ UNCHANGED uuids

ExcluirCategoria ==
    /\ \E sel \in ColNomes(session_state.cats) \ {Traco, ""}, okDel \in BOOLEAN :
          SecaoExcluir("categories", "cats", "categoria_id", "categoria_nome", sel,
                       TRUE, FALSE, TRUE, okDel)
    /\ UNCHANGED uuids

ConfirmarExclusaoCategoria ==
    /\ screen.confirm.table = "categories"
    /\ \E okClear, okDel \in BOOLEAN :
          SecaoExcluir("categories", "cats", "categoria_id", "categoria_nome", screen.confirm.sel,
                       FALSE, TRUE, okClear, okDel)
    /\ UNCHANGED uuids

(***************************************************************************)
(* Registrar lançamento: form_tx (lines 145-220).                          *)
(***************************************************************************)
RegistrarLancamento ==
    /\ nOps < MaxOps
    /\ uuids.transactions < MaxTx
    /\ \E tipo \in Tipos, valor \in Valores,
          cat_choice \in {NovaCategoria} \cup ColNomes(session_state.cats),
          acc_choice \in {Nenhuma} \cup ColNomes(session_state.accounts),
          card_choice \in {Nenhum} \cup ColNomes(session_state.cards),
          okCat, okTx \in BOOLEAN :
       \E nova_cat \in IF cat_choice = NovaCategoria THEN Nomes \cup {""} ELSE {""},
          nova_cat_tipo \in IF cat_choice = NovaCategoria THEN CatTipos ELSE {"Despesa"} :
       LET cid == uuids.categories + 1
           new_cat == [id |-> cid, nome |-> nova_cat, tipo |-> nova_cat_tipo,
                       default_conta_id |-> None, default_cartao_id |-> None]
           created == insert_row(supabase.categories, new_cat, okCat)
           categoria_id == IF nova_cat # "" THEN cid
                           ELSE NameMapGet(session_state.cats, cat_choice)
           categoria_nome == IF nova_cat # "" THEN nova_cat ELSE cat_choice
           tx_id == uuids.transactions + 1
           acc_id == NameMapGet(session_state.accounts, acc_choice)
           card_id == NameMapGet(session_state.cards, card_choice)
           novo == [id |-> tx_id, tipo |-> tipo, valor |-> valor,
                    categoria_id |-> categoria_id,
                    categoria_nome |-> IF categoria_id # None THEN categoria_nome ELSE NoneNome,
                    conta_id |-> acc_id,
                    conta_nome |-> IF acc_id # None THEN acc_choice ELSE NoneNome,
                    cartao_id |-> card_id,
                    cartao_nome |-> IF card_id # None THEN card_choice ELSE NoneNome]
           inserted == insert_row(supabase.transactions, novo, okTx)
       IN  IF nova_cat # "" /\ created.data = <<>>
           THEN \* "Falha ao criar categoria. Operação abortada." and st.stop()
                /\ uuids.categories < MaxCats
                /\ screen' = Blank({"Erro ao inserir em categories", "Falha ao criar categoria."})
                /\ UNCHANGED <<supabase, session_state, uuids>>
           ELSE /\ nova_cat # "" => uuids.categories < MaxCats
                /\ supabase' = [supabase EXCEPT
                      !.categories = IF nova_cat # "" THEN created.table ELSE @,
                      !.transactions = inserted.table]
                /\ session_state' = [session_state EXCEPT
                      !.cats = IF nova_cat # "" THEN @ \o created.data ELSE @,
                      !.tx = IF inserted.data # <<>> THEN @ \o inserted.data ELSE @]
                /\ uuids' = [uuids EXCEPT
                      !.categories = IF nova_cat # "" THEN cid ELSE @,
                      !.transactions = IF inserted.data # <<>> THEN tx_id ELSE @]
                /\ screen' = Blank(IF inserted.data # <<>>
                                   THEN {}
                                   ELSE {"Erro ao inserir em transactions"})
    /\ nOps' = nOps + 1

(***************************************************************************)
(* Visualizar registros: edit_tx and "Excluir lançamento" (lines 225-260). *)
(***************************************************************************)
EditarLancamento ==
    /\ nOps < MaxOps
    /\ \E r \in Rows(session_state.tx), new_tipo \in Tipos, new_val \in Valores, ok \in BOOLEAN :
       LET tx_id == r.id
           updates == [tipo |-> new_tipo, valor |-> new_val]
           res == update_row(supabase.transactions, tx_id, updates, ok)
       IN  /\ supabase' = [supabase EXCEPT !.transactions = res.table]
           /\ IF ~res.isNone
              THEN /\ session_state' = [session_state EXCEPT !.tx = LocSet(@, "id", tx_id, updates)]
                   /\ screen' = Blank({})
              ELSE /\ screen' = Blank({"Erro ao atualizar transactions"})
                   /\ UNCHANGED session_state
    /\ nOps' = nOps + 1
    /\ UNCHANGED uuids

ExcluirLancamento ==
    /\ nOps < MaxOps
    /\ \E r \in Rows(session_state.tx), ok \in BOOLEAN :
       LET tx_id == r.id
           res == delete_row(supabase.transactions, tx_id, ok)
       IN  /\ supabase' = [supabase EXCEPT !.transactions = res.table]
           /\ IF ~res.isNone
              THEN /\ session_state' = [session_state EXCEPT !.tx = DropId(@, tx_id)]
                   /\ screen' = Blank({})
              ELSE /\ screen' = Blank({"Erro ao deletar"})
                   /\ UNCHANGED session_state
    /\ nOps' = nOps + 1
    /\ UNCHANGED uuids

(***************************************************************************)
(* Dashboard (lines 265-312).                                              *)
(***************************************************************************)
RECURSIVE SumValor(_)
\* df["valor"].sum()
SumValor(df) == IF df = <<>> THEN 0 ELSE Head(df).valor + SumValor(Tail(df))

Receitas(df) == SumValor(SelectSeq(df, LAMBDA t : t.tipo = "Receita"))
Despesas(df) == SumValor(SelectSeq(df, LAMBDA t : t.tipo = "Despesa"))
\* mutant: the expenses are added instead of subtracted
Saldo_soma(df) == Receitas(df) + Despesas(df)

Saldo(df) == Receitas(df) - Despesas(df)

\* lines 289-293
AccountSaldos(df, accounts) ==
    [i \in 1..Len(accounts) |->
        LET a == accounts[i]
            movimento == SumValor(SelectSeq(df, LAMBDA t : t.conta_id = a.id))
        IN  [conta |-> a.nome, saldo |-> a.saldo_inicial + movimento]]

\* df.groupby("categoria_nome")["valor"].sum(): groupby drops the rows whose key is null
CatSum(df) ==
    {[categoria_nome |-> n, valor |-> SumValor(SelectSeq(df, LAMBDA t : t.categoria_nome = n))] :
        n \in {t.categoria_nome : t \in Rows(df)} \ {NoneNome}}

\* lines 307-311
CardSummaries(df, cards) ==
    [i \in 1..Len(cards) |->
        LET c == cards[i]
            usado == SumValor(SelectSeq(df, LAMBDA t : t.cartao_id = c.id))
        IN  [cartao |-> c.nome, limite |-> c.limite, usado |-> usado,
             restante |-> c.limite - usado]]

Dashboard ==
    /\ LET df == session_state.tx
       IN  IF df = <<>>
           THEN screen' = Blank({})
           ELSE screen' = [msgs |-> {}, confirm |-> NoConfirm,
                           dash |-> [shown |-> TRUE,
                                     receitas |-> Receitas(df),
                                     despesas |-> Despesas(df),
                                     saldo |-> Saldo(df),
                                     account_saldos |-> AccountSaldos(df, session_state.accounts),
                                     cat_sum |-> CatSum(df),
                                     card_summaries |-> CardSummaries(df, session_state.cards)]]
    /\ UNCHANGED <<supabase, session_state, uuids, nOps>>

Next ==
    \/ RegistrarLancamento
    \/ EditarLancamento
    \/ ExcluirLancamento
    \/ Dashboard
    \/ NewSession
    \/ CadastrarConta
    \/ EditarConta
    \/ ExcluirConta
    \/ ConfirmarExclusaoConta
    \/ CadastrarCartao
    \/ EditarCartao
    \/ ExcluirCartao
    \/ ConfirmarExclusaoCartao
    \/ CadastrarCategoria
    \/ EditarCategoria
    \/ ExcluirCategoria
    \/ ConfirmarExclusaoCategoria

(***************************************************************************)
(* The figures the specification asks for (spec sections 4.4 and 8),       *)
(* computed over the set of rows the dashboard reads.                      *)
(***************************************************************************)
SignedAmount(t) == IF t.tipo = "Receita" THEN t.valor ELSE 0 - t.valor

RECURSIVE ValorTotal(_)
ValorTotal(S) ==
    IF S = {} THEN 0 ELSE LET t == CHOOSE x \in S : TRUE IN t.valor + ValorTotal(S \ {t})

RECURSIVE SignedTotal(_)
SignedTotal(S) ==
    IF S = {} THEN 0 ELSE LET t == CHOOSE x \in S : TRUE IN SignedAmount(t) + SignedTotal(S \ {t})

Ids(table) == {r.id : r \in table}

\* The amounts the data model of the specification allows: valor > 0.
AllPositive == \A t \in Rows(session_state.tx) : t.valor > 0

\* C1: the balance the dashboard shows for every account is saldo_inicial plus the
\* signed amounts (+valor for Receita, -valor for Despesa) of the transactions linked to it
\* (stated for the dashboards over positive amounts only).
C1_SaldoPorContaAssinado ==
    screen.dash.shown /\ AllPositive =>
        \A i \in 1..Len(session_state.accounts) :
            LET a == session_state.accounts[i]
            IN  screen.dash.account_saldos[i].saldo =
                    a.saldo_inicial
                    + SignedTotal({t \in Rows(session_state.tx) : t.conta_id = a.id})

\* C2: the 'usado' the dashboard shows for every card is the sum of valor over the Despesa
\* transactions linked to the card, and 'restante' is limite - usado (stated for the
\* dashboards over positive amounts only).
C2_UsadoSoDespesas ==
    screen.dash.shown /\ AllPositive =>
        \A i \in 1..Len(session_state.cards) :
            LET c == session_state.cards[i]
                usado == ValorTotal({t \in Rows(session_state.tx) :
                                        t.cartao_id = c.id /\ t.tipo = "Despesa"})
            IN  /\ screen.dash.card_summaries[i].usado = usado
                /\ screen.dash.card_summaries[i].restante = c.limite - usado

\* C8: whenever the dashboard shows its summary (the transactions are not empty), Receitas
\* is the sum of valor over tipo = Receita, Despesas the sum over tipo = Despesa, and
\* Saldo is Receitas - Despesas.
C8_ResumoFinanceiro ==
    screen.dash.shown =>
        LET rec == ValorTotal({t \in Rows(session_state.tx) : t.tipo = "Receita"})
            des == ValorTotal({t \in Rows(session_state.tx) : t.tipo = "Despesa"})
        IN  /\ session_state.tx # <<>>
            /\ screen.dash.receitas = rec
            /\ screen.dash.despesas = des
            /\ screen.dash.saldo = rec - des

\* C8 witness: a dashboard over at least one Receita and one Despesa with different totals.
C8_Witness ==
    /\ screen.dash.shown
    /\ \E t \in Rows(session_state.tx) : t.tipo = "Receita"
    /\ \E t \in Rows(session_state.tx) : t.tipo = "Despesa"
    /\ screen.dash.despesas # 0
    /\ screen.dash.saldo # screen.dash.receitas + screen.dash.despesas

\* C9: the per-category rollup has one group per category name holding the sum of the
\* signed amounts of its transactions, the transactions without category form one group
\* of their own, and the values of the rollup add up to the overall saldo (stated for the
\* dashboards over positive amounts only).
C9_UsoPorCategoriaAssinado ==
    screen.dash.shown /\ AllPositive =>
        LET rows == Rows(session_state.tx)
            grupos == {[categoria_nome |-> n,
                        valor |-> SignedTotal({t \in rows : t.categoria_nome = n})] :
                          n \in {t.categoria_nome : t \in rows}}
        IN  /\ screen.dash.cat_sum = grupos
            /\ ValorTotal(screen.dash.cat_sum) = screen.dash.saldo

(***************************************************************************)
(* Claims about the handlers.                                              *)
(***************************************************************************)
\* The transactions of the store after a step that were not in it before the step.
NewTx == {u \in supabase'.transactions : u.id \notin Ids(supabase.transactions)}

\* The rows of `tabela` a step removes from the store leave every transaction in place,
\* with column col set to null in exactly the transactions that referred to the row.
RefsCleared(tabela, col) ==
    \A row \in supabase[tabela] :
        row.id \notin Ids(supabase'[tabela]) =>
            /\ Cardinality(supabase'.transactions) = Cardinality(supabase.transactions)
            /\ \A t \in supabase.transactions :
                   IF t[col] = row.id
                   THEN [t EXCEPT ![col] = None] \in supabase'.transactions
                   ELSE t \in supabase'.transactions

\* C3: whenever a delete of an account, card or category referenced by N transactions
\* completes, exactly those N transactions have conta_id / cartao_id / categoria_id set
\* to null, every other field and transaction is unchanged and no transaction is removed.
C3_ExclusaoLimpaReferencias ==
    [][/\ RefsCleared("accounts", "conta_id")
       /\ RefsCleared("cards", "cartao_id")
       /\ RefsCleared("categories", "categoria_id")]_vars

\* C4: after any attempt to delete an account, in the store either the account is gone
\* and no transaction's conta_id is its id, or the account is still there and every
\* transaction that referred to it before the attempt still does.
C4_ExclusaoContaAtomica ==
    [][(ExcluirConta \/ ConfirmarExclusaoConta) =>
          \A a \in supabase.accounts :
              \/ /\ a.id \notin Ids(supabase'.accounts)
                 /\ \A u \in supabase'.transactions : u.conta_id # a.id
              \/ /\ a.id \in Ids(supabase'.accounts)
                 /\ \A t \in supabase.transactions :
                        t.conta_id = a.id =>
                            \E u \in supabase'.transactions : u.id = t.id /\ u.conta_id = a.id]_vars

\* The st.error messages of a mutation that Supabase refused.
Rejected ==
    {"Erro ao inserir em transactions", "Erro ao inserir em accounts", "Erro ao inserir em cards",
     "Erro ao inserir em categories", "Erro ao atualizar transactions", "Erro ao atualizar accounts",
     "Erro ao atualizar cards", "Erro ao atualizar categories", "Erro ao deletar"}

\* C5: a rejected mutation leaves the four tables unchanged, in the store and in the
\* session; in particular a "Registrar lançamento" submission that names a new category
\* and whose transaction insert fails.
C5_RejeicaoSemEfeito ==
    [][screen'.msgs \cap Rejected # {} =>
          /\ supabase' = supabase
          /\ session_state' = session_state]_vars

\* C6: no step stores a new Despesa linked to a card when the Despesa amounts already
\* linked to the card plus its valor exceed the card's limite.
C6_LimiteDoCartao ==
    [][\A u \in NewTx : \A c \in supabase.cards :
          (u.tipo = "Despesa" /\ u.cartao_id = c.id) =>
              ValorTotal({t \in supabase.transactions :
                             t.cartao_id = c.id /\ t.tipo = "Despesa"}) + u.valor <= c.limite]_vars

C10_SessaoEspelhaBanco ==
    /\ Rows(session_state.tx) = supabase.transactions
    /\ Rows(session_state.cards) = supabase.cards
    /\ Rows(session_state.accounts) = supabase.accounts
    /\ Rows(session_state.cats) = supabase.categories
    /\ Len(session_state.tx) = Cardinality(supabase.transactions)
    /\ Len(session_state.cards) = Cardinality(supabase.cards)
    /\ Len(session_state.accounts) = Cardinality(supabase.accounts)
    /\ Len(session_state.cats) = Cardinality(supabase.categories)

\* C11: the click on "Confirmar exclusão desta conta", made on the screen that the click on
\* "Excluir conta" rendered for an account with linked transactions, leaves the store with
\* the account gone and every transaction that was linked to it still there with a null
\* conta_id.
C11_ContaVinculadaExcluivel ==
    [][ConfirmarExclusaoConta =>
          LET row == FirstByNome(session_state.accounts, screen.confirm.sel)
          IN  /\ row.id \notin Ids(supabase'.accounts)
              /\ \A t \in supabase.transactions :
                     t.conta_id = row.id =>
                         \E u \in supabase'.transactions : u.id = t.id /\ u.conta_id = None]_vars

\* C12: every stored card has limite >= 0 and vencimento in 1..31.
C12_CartaoDentroDosLimites ==
    \A c \in supabase.cards : c.limite >= 0 /\ c.vencimento \in 1..31

\* C13: every stored transaction has valor > 0.
C13_ValorPositivo ==
    \A t \in supabase.transactions : t.valor > 0

\* C14: every stored category has a default_conta_id that is null or the id of a stored
\* account and a default_cartao_id that is null or the id of a stored card.
C14_PadroesDaCategoriaExistem ==
    \A c \in supabase.categories :
        /\ c.default_conta_id = None \/ c.default_conta_id \in Ids(supabase.accounts)
        /\ c.default_cartao_id = None \/ c.default_cartao_id \in Ids(supabase.cards)

\* The nome column `nomeCol` of transaction t is the nome of the row of `table` that its
\* column `col` refers to.
NomeAtual(t, col, nomeCol, table) ==
    \A r \in table : t[col] = r.id => t[nomeCol] = r.nome

\* C15: for every stored transaction with a non-null categoria_id / conta_id / cartao_id,
\* the categoria_nome / conta_nome / cartao_nome stored on it is the current nome of the
\* category / account / card it refers to.
C15_NomesDesnormalizadosAtuais ==
    \A t \in supabase.transactions :
        /\ t.categoria_id # None => NomeAtual(t, "categoria_id", "categoria_nome", supabase.categories)
        /\ t.conta_id # None => NomeAtual(t, "conta_id", "conta_nome", supabase.accounts)
        /\ t.cartao_id # None => NomeAtual(t, "cartao_id", "cartao_nome", supabase.cards)

\* Every row of df is the row some option of the "Selecione ..." selectbox resolves to, and
\* every nome resolves to the same id in that selectbox and in the maps of form_tx.
SeletorExato(df) ==
    /\ \A i \in 1..Len(df) :
           \E sel \in ColNomes(df) \ {Traco, ""} : FirstByNome(df, sel) = df[i]
    /\ \A nome \in ColNomes(df) : FirstByNome(df, nome).id = NameMapGet(df, nome)

\* C16: every account, card and category of the session can be picked in its edit/delete
\* selector, and that selector and the selector of the transaction form resolve a nome to
\* the same id, also when two records share a nome.
C16_SeletoresExatos ==
    /\ SeletorExato(session_state.accounts)
    /\ SeletorExato(session_state.cards)
    /\ SeletorExato(session_state.cats)

Spec ==Init /\ [][Next]_vars

(***************************************************************************)
(* The same script with at most MaxOpsCurto reruns that call Supabase.     *)
(***************************************************************************)
PodeOperar == nOps < MaxOpsCurto
Curto == nOps' <= MaxOpsCurto

NextCurto ==
    \/ PodeOperar /\ RegistrarLancamento
    \/ PodeOperar /\ EditarLancamento
    \/ PodeOperar /\ ExcluirLancamento
    \/ Dashboard
    \/ PodeOperar /\ NewSession
    \/ PodeOperar /\ CadastrarConta
    \/ PodeOperar /\ EditarConta
    \/ ExcluirConta /\ Curto
    \/ ConfirmarExclusaoConta
    \/ PodeOperar /\ CadastrarCartao
    \/ PodeOperar /\ EditarCartao
    \/ ExcluirCartao /\ Curto
    \/ ConfirmarExclusaoCartao
    \/ PodeOperar /\ CadastrarCategoria
    \/ PodeOperar /\ EditarCategoria
    \/ ExcluirCategoria /\ Curto
    \/ ConfirmarExclusaoCategoria

SpecCurto == Init /\ [][NextCurto]_vars
====
